---- MODULE Spec2Model ----
(***************************************************************************)
(* Model of the Sora-2 sample scripts.                                     *)
(*                                                                         *)
(* Spec and LiveSpec model python/sora2-video-creation-status.py: the      *)
(* __main__ block, the configuration check and the fixed-interval polling  *)
(* loop of check_video_status, together with the remote video service the  *)
(* script reads through client.videos.retrieve.  RerunSpec lets the script *)
(* be run again after it has ended.  ScriptsSpec models the scripts that   *)
(* make a single remote call: download, delete, list, text-to-video and    *)
(* image-to-video.                                                         *)
(*                                                                         *)
(* Every observable effect of a script (a remote call, a sleep, a          *)
(* filesystem operation, a printed line) is appended to the history        *)
(* variable trace, in program order.                                       *)
(***************************************************************************)
EXTENDS Integers, Sequences, FiniteSets

VARIABLES pc, argv, env, video_id, video, result, error, exitCode,
          trace, remote, fs

\* state beyond one run of the status script: the results of the runs that
\* ended before this one, the script that is running, and the locals of
\* download_video
VARIABLES history, script, output_file_path, content

others == <<history, script, output_file_path, content>>

vars == <<pc, argv, env, video_id, video, result, error, exitCode,
          trace, remote, fs, others>>

----------------------------------------------------------------------------
(* Bounds of the model *)

\* Lookups that may observe a non-terminal status before the model stops
\* exploring further polls (the script itself has no such limit).
MaxLookups == 3

\* Times the status script is run, one run after the other.
MaxRuns == 2

----------------------------------------------------------------------------
(* Values *)

\* os.getenv of a variable that is not set
None == "<None>"

\* time.sleep(20)
PollInterval == 20

\* the statuses that end the loop of check_video_status
TerminalStatuses == {"completed", "failed", "cancelled"}

\* statuses the service may report for a job that has not ended, including
\* an empty string and a value the script has never heard of
PendingStatuses == {"queued", "in_progress", "", "paused"}

Statuses == PendingStatuses \cup TerminalStatuses

\* the id of the job the service knows, and other command-line arguments
KnownId == "video_1"

VideoIds == {KnownId, "", "not-a-video"}

EnvValues == {None, "", "set"}

\* failures of client.videos.retrieve
LookupErrors == {"APIConnectionError", "AuthenticationError", "NotFoundError"}

NoError == "none"

NoVideo == [id |-> "", status |-> "", serial |-> 0]

\* content before download_content has returned
NoContent == "none"

\* a path is the sequence of its components; no path
NoPath == <<>>

\* output paths given to the download script: a bare file name, and files
\* in one and in two levels of directories
OutputPaths == {<<"out.mp4">>, <<"videos", "out.mp4">>, <<"videos", "gen", "out.mp4">>}

\* image_filename of the image-to-video script
ImageFile == <<"horses-1280x720.jpg">>

\* the scripts with a single remote call
Scripts == {"download", "delete", "list", "text_to_video", "image_to_video"}

----------------------------------------------------------------------------
(* Helpers *)

\* one entry of the history
Ev(ev, what, status, n, err) ==
    [ev |-> ev, what |-> what, status |-> status, n |-> n, err |-> err]

\* a line written by the built-in print
Line(what, status, n) == Ev("print", what, status, n, NoError)

\* variant: the check written as `v is None`
FalsyNoneOnly(v) == v = None

\* Python truthiness of a value returned by os.getenv: `not v`
Falsy(v) == v = None \/ v = ""

\* variant: the loop written as `while video.status in ["queued", "in_progress"]`
IsTerminalNotPending(s) == s \notin {"queued", "in_progress"}

\* video.status not in ["completed", "failed", "cancelled"] is the negation
IsTerminal(s) == s \in TerminalStatuses

\* the lookups issued so far
LookupCount == Cardinality({i \in DOMAIN trace : trace[i].ev = "retrieve"})

\* what client.videos.retrieve(id) can do: succeed, for the job the service
\* knows, or raise
Outcomes(id) == IF id = KnownId THEN {"ok"} \cup LookupErrors ELSE LookupErrors

\* the record a successful retrieve returns: the job as the service holds it
\* now; serial numbers the responses
Retrieved(id) == [id |-> id, status |-> remote.status, serial |-> LookupCount + 1]

RetrieveOk(id) ==
    LET v == Retrieved(id) IN Ev("retrieve", id, v.status, v.serial, NoError)

RetrieveFailed(id, e) == Ev("retrieve", id, "", 0, e)

----------------------------------------------------------------------------
(* Initial state *)

Init ==
    /\ pc = "main"
    /\ argv \in {<<"prog">>} \cup {<<"prog", id>> : id \in VideoIds}
                \cup {<<"prog", KnownId, "extra">>}
    /\ env \in [AZURE_API_KEY : EnvValues, AZURE_RESOURCE_NAME : EnvValues]
    /\ video_id = ""
    /\ video = NoVideo
    /\ result = NoVideo
    /\ error = NoError
    /\ exitCode = -1
    /\ trace = <<>>
    /\ remote \in [status : Statuses]
    /\ fs = {}
    /\ history = <<>>
    /\ script = "status"
    /\ output_file_path = NoPath
    /\ content = NoContent

----------------------------------------------------------------------------
(* sora2-video-creation-status.py *)

\* variant: an empty id is turned away like a missing argument
MainValidatesId ==
    /\ pc = "main"
    /\ IF Len(argv) < 2 \/ argv[2] = ""
       THEN /\ trace' = Append(trace, Line("usage", "", 0))
            /\ exitCode' = 1
            /\ pc' = "exited"
            /\ UNCHANGED video_id
       ELSE /\ video_id' = argv[2]
            /\ pc' = "getenv"
            /\ UNCHANGED <<trace, exitCode>>
    /\ UNCHANGED <<argv, env, video, result, error, remote, fs, others>>

\* if __name__ == "__main__": argument check, then the call
Main ==
    /\ pc = "main"
    /\ IF Len(argv) < 2
       THEN /\ trace' = Append(trace, Line("usage", "", 0))
            /\ exitCode' = 1
            /\ pc' = "exited"
            /\ UNCHANGED video_id
       ELSE /\ video_id' = argv[2]
            /\ pc' = "getenv"
            /\ UNCHANGED <<trace, exitCode>>
    /\ UNCHANGED <<argv, env, video, result, error, remote, fs, others>>

\* check_video_status: read the configuration, build the client, print the
\* endpoint
CheckConfig ==
    /\ pc = "getenv"
    /\ IF Falsy(env.AZURE_API_KEY) \/ Falsy(env.AZURE_RESOURCE_NAME)
       THEN /\ trace' = Append(trace, Line("config_error", "", 0))
            /\ exitCode' = 1
            /\ pc' = "exited"
       ELSE /\ trace' = Append(trace, Line("endpoint", "", 0))
            /\ pc' = "retrieve_initial"
            /\ UNCHANGED exitCode
    /\ UNCHANGED <<argv, env, video_id, video, result, error, remote, fs, others>>

\* video = client.videos.retrieve(video_id); print the initial status
RetrieveInitial ==
    /\ pc = "retrieve_initial"
    /\ \E o \in Outcomes(video_id) :
         IF o = "ok"
         THEN /\ video' = Retrieved(video_id)
              /\ trace' = trace \o <<RetrieveOk(video_id),
                                     Line("initial", remote.status, 0)>>
              /\ pc' = "loop_test"
              /\ UNCHANGED error
         ELSE /\ error' = o
              /\ trace' = Append(trace, RetrieveFailed(video_id, o))
              /\ pc' = "raised"
              /\ UNCHANGED video
    /\ UNCHANGED <<argv, env, video_id, result, exitCode, remote, fs, others>>

\* variant: the loop gives up after two lookups
LoopTestMaxAttempts ==
    /\ pc = "loop_test"
    /\ pc' = IF IsTerminal(video.status) \/ LookupCount >= 2 THEN "final" ELSE "wait"
    /\ UNCHANGED <<argv, env, video_id, video, result, error, exitCode,
                   trace, remote, fs, others>>

\* variant: the loop written as do-while, one wait before the first test
LoopTestWaitFirst ==
    /\ pc = "loop_test"
    /\ pc' = IF IsTerminal(video.status) /\ LookupCount >= 2 THEN "final" ELSE "wait"
    /\ UNCHANGED <<argv, env, video_id, video, result, error, exitCode,
                   trace, remote, fs, others>>

\* while video.status not in ["completed", "failed", "cancelled"]:
LoopTest ==
    /\ pc = "loop_test"
    /\ pc' = IF IsTerminal(video.status) THEN "final" ELSE "wait"
    /\ UNCHANGED <<argv, env, video_id, video, result, error, exitCode,
                   trace, remote, fs, others>>

\* variant: the sleep grows with the number of lookups made
WaitBackoff ==
    /\ pc = "wait"
    /\ trace' = trace \o <<Line("waiting", video.status, 0),
                           Ev("sleep", "", "", PollInterval * LookupCount, NoError)>>
    /\ pc' = "retrieve_again"
    /\ UNCHANGED <<argv, env, video_id, video, result, error, exitCode,
                   remote, fs, others>>

\* variant: the loop sleeps without printing the status
WaitSilent ==
    /\ pc = "wait"
    /\ trace' = Append(trace, Ev("sleep", "", "", PollInterval, NoError))
    /\ pc' = "retrieve_again"
    /\ UNCHANGED <<argv, env, video_id, video, result, error, exitCode,
                   remote, fs, others>>

\* print the status, time.sleep(20)
Wait ==
    /\ pc = "wait"
    /\ trace' = trace \o <<Line("waiting", video.status, 0),
                           Ev("sleep", "", "", PollInterval, NoError)>>
    /\ pc' = "retrieve_again"
    /\ UNCHANGED <<argv, env, video_id, video, result, error, exitCode,
                   remote, fs, others>>

\* variant: a failed lookup in the loop is caught and the loop goes on
RetrieveAgainRetry ==
    /\ pc = "retrieve_again"
    /\ LookupCount < MaxLookups \/ remote.status \in TerminalStatuses
    /\ \E o \in Outcomes(video_id) :
         IF o = "ok"
         THEN /\ video' = Retrieved(video_id)
              /\ trace' = Append(trace, RetrieveOk(video_id))
              /\ pc' = "loop_test"
         ELSE /\ trace' = Append(trace, RetrieveFailed(video_id, o))
              /\ pc' = "loop_test"
              /\ UNCHANGED video
    /\ UNCHANGED <<argv, env, video_id, result, error, exitCode, remote, fs, others>>

\* video = client.videos.retrieve(video_id), in the loop
RetrieveAgain ==
    /\ pc = "retrieve_again"
    /\ LookupCount < MaxLookups \/ remote.status \in TerminalStatuses
    /\ \E o \in Outcomes(video_id) :
         IF o = "ok"
         THEN /\ video' = Retrieved(video_id)
              /\ trace' = Append(trace, RetrieveOk(video_id))
              /\ pc' = "loop_test"
              /\ UNCHANGED error
         ELSE /\ error' = o
              /\ trace' = Append(trace, RetrieveFailed(video_id, o))
              /\ pc' = "raised"
              /\ UNCHANGED video
    /\ UNCHANGED <<argv, env, video_id, result, exitCode, remote, fs, others>>

\* variant: a status other than completed is raised as an error
FinalRaiseOnFailure ==
    /\ pc = "final"
    /\ IF video.status = "completed"
       THEN /\ trace' = trace \o <<Line("completed", "", 0),
                                   Line("video", video.status, video.serial)>>
            /\ pc' = "return"
            /\ UNCHANGED error
       ELSE /\ trace' = Append(trace, Line("ended", video.status, 0))
            /\ error' = "RuntimeError"
            /\ pc' = "raised"
    /\ UNCHANGED <<argv, env, video_id, video, result, exitCode, remote, fs, others>>

\* variant: a status other than completed ends the process with sys.exit(1)
FinalExitOnFailure ==
    /\ pc = "final"
    /\ trace' = trace \o
         <<IF video.status = "completed"
           THEN Line("completed", "", 0)
           ELSE Line("ended", video.status, 0),
           Line("video", video.status, video.serial)>>
    /\ IF video.status = "completed"
       THEN pc' = "return" /\ UNCHANGED exitCode
       ELSE pc' = "exited" /\ exitCode' = 1
    /\ UNCHANGED <<argv, env, video_id, video, result, error, remote, fs, others>>

\* variant: a job that did not complete is deleted from the service
FinalDeleteFailed ==
    /\ pc = "final"
    /\ IF video.status = "completed"
       THEN /\ trace' = trace \o <<Line("completed", "", 0),
                                   Line("video", video.status, video.serial)>>
            /\ UNCHANGED remote
       ELSE /\ trace' = trace \o <<Line("ended", video.status, 0),
                                   Line("video", video.status, video.serial),
                                   Ev("delete", video_id, "", 0, NoError)>>
            /\ remote' = [status |-> "deleted"]
    /\ pc' = "return"
    /\ UNCHANGED <<argv, env, video_id, video, result, error, exitCode, fs, others>>

\* the final report
Final ==
    /\ pc = "final"
    /\ trace' = trace \o
         <<IF video.status = "completed"
           THEN Line("completed", "", 0)
           ELSE Line("ended", video.status, 0),
           Line("video", video.status, video.serial)>>
    /\ pc' = "return"
    /\ UNCHANGED <<argv, env, video_id, video, result, error, exitCode,
                   remote, fs, others>>

\* variant: the job is fetched once more for the return value
ReturnRefetch ==
    /\ pc = "return"
    /\ result' = Retrieved(video_id)
    /\ trace' = Append(trace, RetrieveOk(video_id))
    /\ pc' = "returned"
    /\ UNCHANGED <<argv, env, video_id, video, error, exitCode, remote, fs, others>>

\* return video
Return ==
    /\ pc = "return"
    /\ result' = video
    /\ pc' = "returned"
    /\ UNCHANGED <<argv, env, video_id, video, error, exitCode, trace,
                   remote, fs, others>>

\* the call in __main__ returned: the script ends
ModuleEnd ==
    /\ pc = "returned"
    /\ exitCode' = 0
    /\ pc' = "exited"
    /\ UNCHANGED <<argv, env, video_id, video, result, error, trace,
                   remote, fs, others>>

\* an exception left check_video_status: nothing in __main__ catches it
Uncaught ==
    /\ pc = "raised"
    /\ exitCode' = 1
    /\ pc' = "exited"
    /\ UNCHANGED <<argv, env, video_id, video, result, error, trace,
                   remote, fs, others>>

\* one step of the status script
StatusStep ==
    \/ Main
    \/ CheckConfig
    \/ RetrieveInitial
    \/ LoopTest
    \/ Wait
    \/ RetrieveAgain
    \/ Final
    \/ Return
    \/ ModuleEnd
    \/ Uncaught

----------------------------------------------------------------------------
(* The remote service *)

\* the service moves the job on its own; a job that has ended stays as it is
ServiceAdvance ==
    /\ remote.status \notin TerminalStatuses
    /\ \E s \in Statuses \ {remote.status} : remote' = [status |-> s]
    /\ UNCHANGED <<pc, argv, env, video_id, video, result, error, exitCode,
                   trace, fs, others>>

----------------------------------------------------------------------------
Next ==
    \/ Main
    \/ CheckConfig
    \/ RetrieveInitial
    \/ LoopTest
    \/ Wait
    \/ RetrieveAgain
    \/ Final
    \/ Return
    \/ ModuleEnd
    \/ Uncaught
    \/ ServiceAdvance

Spec == Init /\ [][Next]_vars

\* the script is sequential: its next statement always runs, and a sleep ends
LiveSpec == Init /\ [][Next]_vars /\ WF_vars(StatusStep)

----------------------------------------------------------------------------
(* The status script run again *)

\* python sora2-video-creation-status.py <video_id>, once more, with the same
\* argument and environment, after the run before has ended
Rerun ==
    /\ script = "status"
    /\ pc = "exited"
    /\ Len(history) < MaxRuns - 1
    /\ history' = Append(history, result)
    /\ pc' = "main"
    /\ video_id' = ""
    /\ video' = NoVideo
    /\ result' = NoVideo
    /\ error' = NoError
    /\ exitCode' = -1
    /\ trace' = <<>>
    /\ UNCHANGED <<argv, env, remote, fs, script, output_file_path, content>>

NextRerun ==
    \/ Main
    \/ CheckConfig
    \/ RetrieveInitial
    \/ LoopTest
    \/ Wait
    \/ RetrieveAgain
    \/ Final
    \/ Return
    \/ ModuleEnd
    \/ Uncaught
    \/ ServiceAdvance
    \/ Rerun

RerunSpec == Init /\ [][NextRerun]_vars

----------------------------------------------------------------------------
(* The scripts with a single remote call: initial state and helpers *)

InitScripts ==
    /\ script \in Scripts
    /\ pc = "start"
    /\ argv \in
         IF script = "download"
         THEN {<<"prog">>, <<"prog", KnownId>>}
                \cup {<<"prog", id, p>> : id \in VideoIds, p \in OutputPaths}
                \cup {<<"prog", KnownId, <<"out.mp4">>, "extra">>}
         ELSE IF script = "delete"
         THEN {<<"prog">>} \cup {<<"prog", id>> : id \in VideoIds}
         ELSE {<<"prog">>}
    /\ env \in [AZURE_API_KEY : EnvValues, AZURE_RESOURCE_NAME : EnvValues,
                AZURE_MODEL_NAME : EnvValues]
    /\ video_id = ""
    /\ video = NoVideo
    /\ result = NoVideo
    /\ error = NoError
    /\ exitCode = -1
    /\ trace = <<>>
    /\ remote \in [status : {"queued", "completed"}]
    /\ fs \in SUBSET {<<"videos">>, ImageFile}
    /\ history = <<>>
    /\ output_file_path = NoPath
    /\ content = NoContent

\* os.path.dirname
DirName(p) == IF Len(p) = 0 THEN NoPath ELSE SubSeq(p, 1, Len(p) - 1)

\* the directories os.makedirs(d) makes sure exist: d and every parent of it
DirsOf(d) == {SubSeq(d, 1, k) : k \in 1..Len(d)}

\* what a remote call without an id can do: succeed or raise
CallOutcomes == {"ok"} \cup LookupErrors

----------------------------------------------------------------------------
(* sora2-download-generated-video.py *)

\* the except clause of __main__: print the error and the troubleshooting
\* list, sys.exit(1); the lines it appends to the history
DownloadFailedLines(e) == <<Ev("print", "download_error", "", 0, e)>>

\* if __name__ == "__main__": exactly two arguments, then the call
DownloadMain ==
    /\ script = "download"
    /\ pc = "start"
    /\ IF Len(argv) # 3
       THEN /\ trace' = Append(trace, Line("usage", "", 0))
            /\ exitCode' = 1
            /\ pc' = "exited"
            /\ UNCHANGED <<video_id, output_file_path>>
       ELSE /\ video_id' = argv[2]
            /\ output_file_path' = argv[3]
            /\ pc' = "dl_getenv"
            /\ UNCHANGED <<trace, exitCode>>
    /\ UNCHANGED <<argv, env, video, result, error, remote, fs, history,
                   script, content>>

\* variant: the output directory is prepared before anything else
DownloadConfigMakesDir ==
    /\ script = "download"
    /\ pc = "dl_getenv"
    /\ fs' = fs \cup DirsOf(DirName(output_file_path))
    /\ IF Falsy(env.AZURE_API_KEY) \/ Falsy(env.AZURE_RESOURCE_NAME)
       THEN /\ error' = "ValueError"
            /\ trace' = trace \o DownloadFailedLines("ValueError")
            /\ exitCode' = 1
            /\ pc' = "exited"
       ELSE /\ trace' = Append(trace, Line("downloading", "", 0))
            /\ pc' = "dl_fetch"
            /\ UNCHANGED <<error, exitCode>>
    /\ UNCHANGED <<argv, env, video_id, video, result, remote, others>>

\* download_video: read the configuration (ValueError when it is missing,
\* caught in __main__), build the client, print what is downloaded
DownloadConfig ==
    /\ script = "download"
    /\ pc = "dl_getenv"
    /\ IF Falsy(env.AZURE_API_KEY) \/ Falsy(env.AZURE_RESOURCE_NAME)
       THEN /\ error' = "ValueError"
            /\ trace' = trace \o DownloadFailedLines("ValueError")
            /\ exitCode' = 1
            /\ pc' = "exited"
       ELSE /\ trace' = Append(trace, Line("downloading", "", 0))
            /\ pc' = "dl_fetch"
            /\ UNCHANGED <<error, exitCode>>
    /\ UNCHANGED <<argv, env, video_id, video, result, remote, fs, others>>

\* content = client.videos.download_content(video_id, variant="video")
DownloadFetch ==
    /\ script = "download"
    /\ pc = "dl_fetch"
    /\ \E o \in Outcomes(video_id) :
         IF o = "ok"
         THEN /\ content' = "video"
              /\ trace' = Append(trace, Ev("download_content", video_id, "", 0, NoError))
              /\ pc' = "dl_makedirs"
              /\ UNCHANGED <<error, exitCode>>
         ELSE /\ error' = o
              /\ trace' = trace \o <<Ev("download_content", video_id, "", 0, o)>>
                                \o DownloadFailedLines(o)
              /\ exitCode' = 1
              /\ pc' = "exited"
              /\ UNCHANGED content
    /\ UNCHANGED <<argv, env, video_id, video, result, remote, fs, history,
                   script, output_file_path>>

\* output_dir = os.path.dirname(...); os.makedirs when it is not empty and
\* does not exist
DownloadMakeDirs ==
    /\ script = "download"
    /\ pc = "dl_makedirs"
    /\ LET output_dir == DirName(output_file_path) IN
         IF output_dir # NoPath /\ output_dir \notin fs
         THEN \E o \in {"ok", "OSError"} :
                IF o = "ok"
                THEN /\ fs' = fs \cup DirsOf(output_dir)
                     /\ trace' = trace \o <<Ev("makedirs", "", "", 0, NoError),
                                            Line("created_directory", "", 0)>>
                     /\ pc' = "dl_write"
                     /\ UNCHANGED <<error, exitCode>>
                ELSE /\ error' = o
                     /\ trace' = trace \o <<Ev("makedirs", "", "", 0, o)>>
                                       \o DownloadFailedLines(o)
                     /\ exitCode' = 1
                     /\ pc' = "exited"
                     /\ UNCHANGED fs
         ELSE /\ pc' = "dl_write"
              /\ UNCHANGED <<fs, trace, error, exitCode>>
    /\ UNCHANGED <<argv, env, video_id, video, result, remote, others>>

\* content.write_to_file(output_file_path), the report, the return and the
\* end of the script; a write that fails may leave the file behind
DownloadWrite ==
    /\ script = "download"
    /\ pc = "dl_write"
    /\ \E o \in {"ok", "OSError"} :
         IF o = "ok"
         THEN /\ fs' = fs \cup {output_file_path}
              /\ trace' = trace \o <<Ev("write_to_file", "", "", 0, NoError),
                                     Line("saved", "", 0)>>
              /\ exitCode' = 0
              /\ UNCHANGED error
         ELSE /\ fs' \in {fs, fs \cup {output_file_path}}
              /\ error' = o
              /\ trace' = trace \o <<Ev("write_to_file", "", "", 0, o)>>
                                \o DownloadFailedLines(o)
              /\ exitCode' = 1
    /\ pc' = "exited"
    /\ UNCHANGED <<argv, env, video_id, video, result, remote, others>>

----------------------------------------------------------------------------
(* sora2-delete-generated-video.py *)

\* if __name__ == "__main__": argument check, then the call
DeleteMain ==
    /\ script = "delete"
    /\ pc = "start"
    /\ IF Len(argv) < 2
       THEN /\ trace' = Append(trace, Line("usage", "", 0))
            /\ exitCode' = 1
            /\ pc' = "exited"
            /\ UNCHANGED video_id
       ELSE /\ video_id' = argv[2]
            /\ pc' = "del_getenv"
            /\ UNCHANGED <<trace, exitCode>>
    /\ UNCHANGED <<argv, env, video, result, error, remote, fs, others>>

\* delete_video: read the configuration, build the client, print the target
DeleteConfig ==
    /\ script = "delete"
    /\ pc = "del_getenv"
    /\ IF Falsy(env.AZURE_API_KEY) \/ Falsy(env.AZURE_RESOURCE_NAME)
       THEN /\ trace' = Append(trace, Line("config_error", "", 0))
            /\ exitCode' = 1
            /\ pc' = "exited"
       ELSE /\ trace' = Append(trace, Line("deleting", "", 0))
            /\ pc' = "del_call"
            /\ UNCHANGED exitCode
    /\ UNCHANGED <<argv, env, video_id, video, result, error, remote, fs, others>>

\* variant: the except clause prints the error and falls through
DeleteCallNoExit ==
    /\ script = "delete"
    /\ pc = "del_call"
    /\ \E o \in Outcomes(video_id) :
         IF o = "ok"
         THEN /\ remote' = [status |-> "deleted"]
              /\ trace' = trace \o <<Ev("delete", video_id, "", 0, NoError),
                                     Line("deleted", "", 0)>>
              /\ UNCHANGED error
         ELSE /\ error' = o
              /\ trace' = trace \o <<Ev("delete", video_id, "", 0, o),
                                     Ev("print", "delete_error", "", 0, o)>>
              /\ UNCHANGED remote
    /\ exitCode' = 0
    /\ pc' = "exited"
    /\ UNCHANGED <<argv, env, video_id, video, result, fs, others>>

\* try: client.videos.delete(video_id), report, return, end of the script;
\* except Exception: print, sys.exit(1)
DeleteCall ==
    /\ script = "delete"
    /\ pc = "del_call"
    /\ \E o \in Outcomes(video_id) :
         IF o = "ok"
         THEN /\ remote' = [status |-> "deleted"]
              /\ trace' = trace \o <<Ev("delete", video_id, "", 0, NoError),
                                     Line("deleted", "", 0)>>
              /\ exitCode' = 0
              /\ UNCHANGED error
         ELSE /\ error' = o
              /\ trace' = trace \o <<Ev("delete", video_id, "", 0, o),
                                     Ev("print", "delete_error", "", 0, o)>>
              /\ exitCode' = 1
              /\ UNCHANGED remote
    /\ pc' = "exited"
    /\ UNCHANGED <<argv, env, video_id, video, result, fs, others>>

----------------------------------------------------------------------------
(* sora2-get-generated-videos.py *)

\* module level: read the configuration (ValueError, uncaught, when it is
\* missing), build the client, print the banner
ListConfig ==
    /\ script = "list"
    /\ pc = "start"
    /\ IF Falsy(env.AZURE_API_KEY) \/ Falsy(env.AZURE_RESOURCE_NAME)
       THEN /\ error' = "ValueError"
            /\ exitCode' = 1
            /\ pc' = "exited"
            /\ UNCHANGED trace
       ELSE /\ trace' = Append(trace, Line("retrieving", "", 0))
            /\ pc' = "list_call"
            /\ UNCHANGED <<error, exitCode>>
    /\ UNCHANGED <<argv, env, video_id, video, result, remote, fs, others>>

\* try: client.videos.list() and the listing; except Exception: print;
\* then the script ends
ListCall ==
    /\ script = "list"
    /\ pc = "list_call"
    /\ \E o \in CallOutcomes :
         IF o = "ok"
         THEN /\ trace' = trace \o <<Ev("list", "", remote.status, 0, NoError),
                                     Line("videos", remote.status, 0)>>
              /\ UNCHANGED error
         ELSE /\ error' = o
              /\ trace' = trace \o <<Ev("list", "", "", 0, o),
                                     Ev("print", "error", "", 0, o)>>
    /\ exitCode' = 0
    /\ pc' = "exited"
    /\ UNCHANGED <<argv, env, video_id, video, result, remote, fs, others>>

----------------------------------------------------------------------------
(* sora2-text-to-video-sample.py *)

\* module level: read the configuration, with the model name (ValueError,
\* uncaught, when one is missing), build the client, print the request
TextConfig ==
    /\ script = "text_to_video"
    /\ pc = "start"
    /\ IF \/ Falsy(env.AZURE_API_KEY)
          \/ Falsy(env.AZURE_RESOURCE_NAME)
          \/ Falsy(env.AZURE_MODEL_NAME)
       THEN /\ error' = "ValueError"
            /\ exitCode' = 1
            /\ pc' = "exited"
            /\ UNCHANGED trace
       ELSE /\ trace' = Append(trace, Line("sending", "", 0))
            /\ pc' = "text_call"
            /\ UNCHANGED <<error, exitCode>>
    /\ UNCHANGED <<argv, env, video_id, video, result, remote, fs, others>>

\* try: client.videos.create(...) and the details; except Exception: print;
\* then the script ends
TextCreate ==
    /\ script = "text_to_video"
    /\ pc = "text_call"
    /\ \E o \in CallOutcomes :
         IF o = "ok"
         THEN /\ trace' = trace \o <<Ev("create", "", "queued", 0, NoError),
                                     Line("started", "queued", 0)>>
              /\ UNCHANGED error
         ELSE /\ error' = o
              /\ trace' = trace \o <<Ev("create", "", "", 0, o),
                                     Ev("print", "error", "", 0, o)>>
    /\ exitCode' = 0
    /\ pc' = "exited"
    /\ UNCHANGED <<argv, env, video_id, video, result, remote, fs, others>>

----------------------------------------------------------------------------
(* sora2-image-to-video-sample.py *)

\* module level: read the configuration (ValueError, uncaught, when it is
\* missing), build the client, print the request
ImageConfig ==
    /\ script = "image_to_video"
    /\ pc = "start"
    /\ IF Falsy(env.AZURE_API_KEY) \/ Falsy(env.AZURE_RESOURCE_NAME)
       THEN /\ error' = "ValueError"
            /\ exitCode' = 1
            /\ pc' = "exited"
            /\ UNCHANGED trace
       ELSE /\ trace' = Append(trace, Line("sending", "", 0))
            /\ pc' = "image_call"
            /\ UNCHANGED <<error, exitCode>>
    /\ UNCHANGED <<argv, env, video_id, video, result, remote, fs, others>>

\* try: open the image, client.videos.create(...) and the details;
\* except FileNotFoundError: print; except Exception: print; then the script
\* ends
ImageCreate ==
    /\ script = "image_to_video"
    /\ pc = "image_call"
    /\ IF ImageFile \notin fs
       THEN /\ error' = "FileNotFoundError"
            /\ trace' = Append(trace, Ev("print", "image_not_found", "", 0,
                                         "FileNotFoundError"))
       ELSE \E o \in CallOutcomes :
              IF o = "ok"
              THEN /\ trace' = trace \o <<Ev("create", "", "queued", 0, NoError),
                                          Line("started", "queued", 0)>>
                   /\ UNCHANGED error
              ELSE /\ error' = o
                   /\ trace' = trace \o <<Ev("create", "", "", 0, o),
                                          Ev("print", "error", "", 0, o)>>
    /\ exitCode' = 0
    /\ pc' = "exited"
    /\ UNCHANGED <<argv, env, video_id, video, result, remote, fs, others>>

----------------------------------------------------------------------------
NextScripts ==
    \/ DownloadMain
    \/ DownloadConfig
    \/ DownloadFetch
    \/ DownloadMakeDirs
    \/ DownloadWrite
    \/ DeleteMain
    \/ DeleteConfig
    \/ DeleteCall
    \/ ListConfig
    \/ ListCall
    \/ TextConfig
    \/ TextCreate
    \/ ImageConfig
    \/ ImageCreate

ScriptsSpec == InitScripts /\ [][NextScripts]_vars

----------------------------------------------------------------------------
(* Observations on the history, used by the properties below *)

\* the three statuses the specification calls terminal
EndStates == {"completed", "failed", "cancelled"}

IsLookup(e) == e.ev = "retrieve"

IsSleep(e) == e.ev = "sleep"

IsRemoteOrClock(e) == e.ev # "print"

\* the lookups of the run, in order
Lookups == SelectSeq(trace, IsLookup)

\* the waits of the run, in order
Waits == SelectSeq(trace, IsSleep)

\* lookups and waits of the run, in order, without the printed lines
IO == SelectSeq(trace, IsRemoteOrClock)

LookupFailed == \E i \in DOMAIN trace : IsLookup(trace[i]) /\ trace[i].err # NoError

\* the lookups that answered with a status that is not terminal
PendingLookups ==
    {i \in DOMAIN Lookups : Lookups[i].err = NoError /\ Lookups[i].status \notin EndStates}

\* the record a lookup event delivered
RecordOf(e) == [id |-> e.what, status |-> e.status, serial |-> e.n]

\* the lines of the final report
FinalLines == {i \in DOMAIN trace : trace[i].ev = "print" /\ trace[i].what \in {"completed", "ended"}}

----------------------------------------------------------------------------
(* Properties *)

\* C1: lookups and waits alternate strictly, starting with a lookup; every
\* wait lasts 20 seconds and follows a lookup that answered with a
\* non-terminal status; when check_video_status has returned after N
\* non-terminal answers it has made exactly N+1 lookups and N waits and the
\* last operation is a lookup.
C1_Alternation ==
    /\ \A i \in DOMAIN IO : IsLookup(IO[i]) <=> (i % 2 = 1)
    /\ \A i \in DOMAIN IO :
         IsSleep(IO[i]) =>
           /\ IO[i].n = 20
           /\ i > 1
           /\ IO[i-1].err = NoError
           /\ IO[i-1].status \notin EndStates
    /\ pc = "returned" =>
         LET N == Cardinality(PendingLookups) IN
           /\ Len(Lookups) = N + 1
           /\ Len(Waits) = N
           /\ IsLookup(IO[Len(IO)])

C1_Witness == pc = "returned" /\ Len(Waits) = 2 /\ Len(Lookups) = 3

\* C2: the record check_video_status returns is the record of the last
\* lookup of the run, and that lookup is the first one whose status was
\* terminal.
C2_ReturnsLastLookup ==
    pc = "returned" =>
      LET L == Lookups IN
        /\ L # <<>>
        /\ L[Len(L)].err = NoError
        /\ result = RecordOf(L[Len(L)])
        /\ result.status \in EndStates
        /\ \A i \in 1..(Len(L) - 1) :
             L[i].err = NoError /\ L[i].status \notin EndStates
        /\ IsLookup(IO[Len(IO)])

C2_Witness == pc = "returned" /\ Len(Lookups) = 2 /\ result.serial = 2

\* C3: a lookup that fails is the last thing the run does: its error is the
\* one raised, no lookup, wait or printed line follows it, no final report
\* was printed, nothing is returned and the process ends with exit code 1.
C3_LookupErrorPropagates ==
    \A i \in DOMAIN trace :
      (IsLookup(trace[i]) /\ trace[i].err # NoError) =>
        /\ i = Len(trace)
        /\ error = trace[i].err
        /\ pc \in {"raised", "exited"}
        /\ pc = "exited" => exitCode = 1
        /\ result = NoVideo
        /\ FinalLines = {}
        /\ \A j \in DOMAIN trace : ~(trace[j].ev = "print" /\ trace[j].what = "video")

C3_Witness == pc = "raised" /\ Len(Lookups) = 2 /\ error = "APIConnectionError"

\* C4: the step taken after a lookup depends only on whether the status is
\* one of completed, failed, cancelled: if it is, the poller goes to its
\* final report without another lookup or wait; for any other status it
\* prints one progress line, waits one interval and goes to look up again.
C4_StopIffTerminal ==
    [][ /\ (pc = "loop_test" /\ pc' # pc) =>
             /\ (video.status \in EndStates) <=> (pc' = "final")
             /\ (video.status \notin EndStates) <=> (pc' = "wait")
             /\ trace' = trace
        /\ (pc = "wait" /\ pc' # pc) =>
             /\ video.status \notin EndStates
             /\ pc' = "retrieve_again"
             /\ trace' = trace \o <<Line("waiting", video.status, 0),
                                    Ev("sleep", "", "", 20, NoError)>>
        /\ (pc = "final" /\ pc' # pc) =>
             /\ video.status \in EndStates
             /\ pc' = "return"
             /\ SelectSeq(trace', IsRemoteOrClock) = IO
      ]_vars

C4_Witness ==
    /\ pc = "retrieve_again"
    /\ video.status = "paused"
    /\ Len(Lookups) = 2
    /\ Lookups[1].status = ""

\* C5: a run whose terminal status is failed or cancelled ends like one that
\* completed: no error is raised, the record is returned, the process ends
\* with exit code 0; only the line of the final report differs.
C5_FailedIsNotAnError ==
    video.status \in EndStates =>
      /\ error = NoError
      /\ pc # "raised"
      /\ pc \in {"returned", "exited"} => result = video
      /\ pc = "exited" => exitCode = 0
      /\ pc \in {"return", "returned", "exited"} =>
           /\ Len(trace) >= 2
           /\ trace[Len(trace)] = Line("video", video.status, video.serial)
           /\ trace[Len(trace) - 1] =
                IF video.status = "completed"
                THEN Line("completed", "", 0)
                ELSE Line("ended", video.status, 0)

C5_Witness == pc = "exited" /\ video.status = "cancelled" /\ exitCode = 0

\* C6: if no lookup fails and the service ends up reporting a terminal
\* status for good, a call of check_video_status that got past the
\* configuration check eventually returns.
C6_EventuallyReturns ==
    (<>[](remote.status \in EndStates) /\ []~LookupFailed)
      => ((pc = "retrieve_initial") ~> (pc = "returned"))

C6_Witness == pc = "returned" /\ Len(Waits) >= 1 /\ ~LookupFailed

\* C7: the loop has no retry limit and no timeout: it is left only through
\* a terminal status or a lookup error, and as long as every lookup has
\* answered with a non-terminal status the poller has neither returned nor
\* exited, whatever the number of lookups, and goes on to wait again.
C7_NoRetryLimit ==
    /\ pc \in {"final", "return", "returned"} =>
         /\ Lookups # <<>>
         /\ Lookups[Len(Lookups)].err = NoError
         /\ Lookups[Len(Lookups)].status \in EndStates
    /\ pc = "raised" =>
         /\ Lookups # <<>>
         /\ Lookups[Len(Lookups)].err # NoError
    /\ (Lookups # <<>> /\ PendingLookups = DOMAIN Lookups) =>
         /\ pc \in {"loop_test", "wait", "retrieve_again"}
         /\ exitCode = -1
         /\ result = NoVideo
         /\ pc = "loop_test" => ENABLED (LoopTest /\ pc' = "wait")
         /\ pc = "wait" => ENABLED (Wait /\ pc' = "retrieve_again")

C7_Witness ==
    /\ pc = "retrieve_again"
    /\ Len(Lookups) = MaxLookups
    /\ PendingLookups = DOMAIN Lookups

\* C8: a step of the status script leaves the remote job and the filesystem
\* as they are, and the only remote operation it issues is retrieve.
C8_ReadOnly ==
    [][ StatusStep =>
          /\ remote' = remote
          /\ fs' = fs
          /\ \A i \in DOMAIN trace' : trace'[i].ev \in {"retrieve", "sleep", "print"}
      ]_vars

C8_Witness == pc = "exited" /\ Len(Lookups) = 3 /\ remote.status # Lookups[1].status

\* C9: a lookup is issued only when the job-id argument is there and both
\* AZURE_API_KEY and AZURE_RESOURCE_NAME are set and not empty; otherwise
\* the run makes no lookup and no wait and ends with exit code 1.
C9_NoLookupWithoutConfig ==
    LET Missing == \/ Len(argv) < 2
                   \/ env.AZURE_API_KEY \in {None, ""}
                   \/ env.AZURE_RESOURCE_NAME \in {None, ""}
    IN  Missing =>
          /\ IO = <<>>
          /\ pc \in {"main", "getenv", "exited"}
          /\ pc = "exited" => exitCode = 1
          /\ result = NoVideo

C9_Witness ==
    /\ pc = "exited"
    /\ exitCode = 1
    /\ Len(argv) = 2
    /\ env.AZURE_API_KEY = "set"
    /\ env.AZURE_RESOURCE_NAME = ""

\* the line that reports a status after a lookup: the progress line before
\* a wait, or the first line of the final report
ReportLine(s) ==
    IF s \notin EndStates THEN Line("waiting", s, 0)
    ELSE IF s = "completed" THEN Line("completed", "", 0)
    ELSE Line("ended", s, 0)

\* C10: every answered lookup is followed at once by a printed line that
\* carries its status (after the first lookup, the initial-status line
\* comes first): a progress line, or the final report; every wait is immediately preceded by the progress line of the
\* lookup before it; the final report is printed at most once, after the
\* last lookup, only for a terminal status, and exactly once when the call
\* has returned.
C10_ProgressAndFinalReport ==
    /\ \A i \in DOMAIN trace :
         (IsLookup(trace[i]) /\ trace[i].err = NoError) =>
           LET first == \A j \in 1..(i-1) : ~IsLookup(trace[j])
               k == IF first THEN i + 2 ELSE i + 1
           IN  /\ (first /\ i < Len(trace)) =>
                    trace[i+1] = Line("initial", trace[i].status, 0)
               /\ k <= Len(trace) => trace[k] = ReportLine(trace[i].status)
    /\ \A i \in DOMAIN trace :
         IsSleep(trace[i]) =>
           /\ i > 1
           /\ trace[i-1].ev = "print"
           /\ trace[i-1].what = "waiting"
           /\ \E j \in 1..(i-1) :
                /\ IsLookup(trace[j])
                /\ trace[j].status = trace[i-1].status
                /\ \A k \in (j+1)..(i-1) : trace[k].ev = "print"
    /\ Cardinality(FinalLines) <= 1
    /\ \A i \in FinalLines : \A j \in DOMAIN trace : j > i => trace[j].ev = "print"
    /\ pc \in {"return", "returned"} =>
         /\ Cardinality(FinalLines) = 1
         /\ \A i \in FinalLines : \A j \in DOMAIN trace : IsLookup(trace[j]) => j < i
    /\ pc \in {"loop_test", "wait", "retrieve_again", "final"} => FinalLines = {}

C10_Witness == pc = "returned" /\ Len(Waits) = 2 /\ video.status = "failed"

\* C11: when the run before this one returned a terminal record, this run
\* makes no wait and at most one lookup, and when it returns it has made
\* exactly one lookup and returns the same job record (same id, same
\* status) as the run before.
C11_SecondRunIdempotent ==
    (history # <<>> /\ history[Len(history)].status \in EndStates) =>
      LET prev == history[Len(history)] IN
        /\ Waits = <<>>
        /\ Len(Lookups) <= 1
        /\ pc \in {"returned", "exited"} /\ ~LookupFailed =>
             /\ Len(Lookups) = 1
             /\ result.id = prev.id
             /\ result.status = prev.status
             /\ Lookups[1].what = prev.id

C11_Witness ==
    /\ history # <<>>
    /\ history[Len(history)].status = "failed"
    /\ history[Len(history)].serial = 3
    /\ pc = "returned"
    /\ result.serial = 1

\* C12: the id is not validated locally: every lookup of a run carries the
\* command-line argument as it was given, and a run that has its argument
\* and both credentials never ends without having issued the first lookup,
\* whatever the id; when such a run ends with exit code 1, a lookup failed.
C12_IdNotValidated ==
    /\ Lookups # <<>> => Len(argv) >= 2
    /\ \A i \in DOMAIN Lookups : Lookups[i].what = argv[2]
    /\ pc \in {"getenv", "retrieve_initial"} => video_id = argv[2]
    /\ ( /\ Len(argv) >= 2
         /\ env.AZURE_API_KEY \notin {None, ""}
         /\ env.AZURE_RESOURCE_NAME \notin {None, ""}
         /\ pc = "exited" ) =>
           /\ Lookups # <<>>
           /\ exitCode = 1 => LookupFailed

C12_Witness ==
    /\ pc = "exited"
    /\ Len(argv) = 2
    /\ argv[2] = ""
    /\ Len(Lookups) = 1
    /\ Lookups[1].what = ""
    /\ Lookups[1].err = "NotFoundError"

\* the remote calls of a run of one of the single-call scripts
RemoteCalls ==
    {i \in DOMAIN trace : trace[i].ev \in {"download_content", "delete", "list", "create"}}

\* C13: in the download script a step changes the filesystem or issues a
\* filesystem operation only after download_content has succeeded; when the
\* credentials are missing or the fetch raised, no directory was created, no
\* file was written and the process ends with exit code 1.
C13_FetchBeforeFilesystem ==
    [][ script = "download" =>
          LET fetched(t) == \E j \in DOMAIN t :
                               t[j].ev = "download_content" /\ t[j].err = NoError
              fetchFailed(t) == \E j \in DOMAIN t :
                               t[j].ev = "download_content" /\ t[j].err # NoError
              fsCalls(t) == {i \in DOMAIN t : t[i].ev \in {"makedirs", "write_to_file"}}
              noConfig == \/ env.AZURE_API_KEY \in {None, ""}
                          \/ env.AZURE_RESOURCE_NAME \in {None, ""}
          IN  /\ (fs' # fs \/ fsCalls(trace') # fsCalls(trace)) =>
                   /\ fetched(trace)
                   /\ content = "video"
              /\ \A i \in fsCalls(trace') : \E j \in 1..(i-1) :
                   trace'[j].ev = "download_content" /\ trace'[j].err = NoError
              /\ (noConfig \/ fetchFailed(trace')) =>
                   /\ fs' = fs
                   /\ fsCalls(trace') = {}
                   /\ pc' = "exited" => exitCode' = 1
      ]_vars

C13_Witness ==
    /\ script = "download"
    /\ pc = "exited"
    /\ exitCode = 1
    /\ \E i \in RemoteCalls : trace[i].err = "APIConnectionError"
    /\ output_file_path = <<"videos", "gen", "out.mp4">>
    /\ <<"videos">> \notin fs
    /\ <<"videos", "gen">> \notin fs

\* C14: each of these scripts makes its remote call at most once; when the
\* call raised, the delete and the download script end with exit code 1,
\* the list script and the two creation scripts end with exit code 0 after
\* printing the error.
C14_ExitCodeOnRemoteFailure ==
    /\ script \in Scripts => Cardinality(RemoteCalls) <= 1
    /\ \A i \in RemoteCalls :
         trace[i].err # NoError =>
           /\ pc = "exited"
           /\ error = trace[i].err
           /\ script \in {"delete", "download"} => exitCode = 1
           /\ script \in {"list", "text_to_video", "image_to_video"} =>
                /\ exitCode = 0
                /\ trace[Len(trace)] = Ev("print", "error", "", 0, trace[i].err)

C14_Witness ==
    /\ script = "image_to_video"
    /\ pc = "exited"
    /\ exitCode = 0
    /\ \E i \in RemoteCalls : trace[i].err = "AuthenticationError"

====
